---- MODULE Spec2Model ----
(***************************************************************************)
(* Model of Script_personalizado.py: the FASTQ reader (leer_fastq), the     *)
(* per-read filter chain (procesar_secuencia), the per-file driver          *)
(* (procesar_archivo) and the top-level loop over the discovered files.     *)
(*                                                                          *)
(* A Python str is a sequence of code points.  A text file is the sequence  *)
(* of its lines, each without its line terminator.                          *)
(***************************************************************************)
EXTENDS Integers, Sequences, FiniteSets

VARIABLES
    archivos,           \* the discovered input files, in discovery order
    params,             \* the parameter set returned by obtener_parametros
    pc,                 \* position of the program
    corrida,            \* 1: the run over the inputs, 2: a run over its own outputs
    idx,                \* number of files for which procesar_archivo was entered
    pos,                \* lines of the current file consumed by leer_fastq
    secuencias_vistas,  \* procesar_archivo: the raw sequences seen so far
    total,              \* procesar_archivo: records counted
    conservadas,        \* procesar_archivo: records written
    out,                \* lines written to the current output file
    salidas,            \* the output files closed so far, one per entered file
    resultados,         \* the result entries appended by the main loop
    cedidos,            \* history: the records yielded by leer_fastq for this file
    evaluados,          \* history: indices in cedidos handed to procesar_secuencia
    llamada             \* the latest call of procesar_secuencia: arguments and outcome

vars == <<archivos, params, pc, corrida, idx, pos, secuencias_vistas, total,
          conservadas, out, salidas, resultados, cedidos, evaluados, llamada>>

----------------------------------------------------------------------------
(* Bounds of the model. *)

\* largest threshold the parameter prompt is given (qualities straddle it)
MaxUmbral == 2
\* largest number of bases trimmed from either end
MaxRecorte == 1
\* pieces a read is assembled from, for the filter chain taken alone
MaxPiezas == 2
\* complete four-line records of an input file
MaxRegistros == 2
\* files discovered in the directory
MaxArchivos == 2

----------------------------------------------------------------------------
(* Characters and strings. *)

Ord == [A |-> 65, C |-> 67, G |-> 71, T |-> 84, N |-> 78,
        arroba |-> 64, mas |-> 43, espacio |-> 32, nl |-> 10]

\* the characters str.strip() removes
Blancos == {9, 10, 11, 12, 13, 28, 29, 30, 31, 32}

\* the literal 'auto'
Auto == <<97, 117, 116, 111>>

ADAPTADORES == <<
    <<65, 71, 65, 84, 67, 71, 71, 65, 65, 71, 65, 71>>,
    <<84, 71, 71, 65, 65, 84, 84, 67, 84, 67, 71, 71>>,
    <<67, 84, 71, 84, 67, 84, 67, 84, 84, 65, 84, 65>> >>

PhredOffset == 33

Desde(s, k) == IF k >= Len(s) THEN << >> ELSE SubSeq(s, k + 1, Len(s))

Hasta(s, k) == IF k <= 0 THEN << >> ELSE SubSeq(s, 1, IF k < Len(s) THEN k ELSE Len(s))

RECURSIVE LStrip(_)
LStrip(s) == IF s # << >> /\ Head(s) \in Blancos THEN LStrip(Tail(s)) ELSE s

RECURSIVE RStrip(_)
RStrip(s) ==
    IF s # << >> /\ s[Len(s)] \in Blancos THEN RStrip(Hasta(s, Len(s) - 1)) ELSE s

Strip(s) == RStrip(LStrip(s))

EmpiezaCon(s, p) == Len(p) <= Len(s) /\ SubSeq(s, 1, Len(p)) = p

\* str.replace(viejo, ''): every non-overlapping occurrence, left to right;
\* replacing the empty string by the empty string leaves s as it is
RECURSIVE Replace(_, _)
Replace(s, viejo) ==
    IF viejo = << >> \/ Len(s) < Len(viejo) THEN s
    ELSE IF EmpiezaCon(s, viejo) THEN Replace(Desde(s, Len(viejo)), viejo)
    ELSE <<Head(s)>> \o Replace(Tail(s), viejo)

RECURSIVE Count(_, _)
Count(s, c) ==
    IF s = << >> THEN 0 ELSE (IF Head(s) = c THEN 1 ELSE 0) + Count(Tail(s), c)

RECURSIVE Suma(_)
Suma(v) == IF v = << >> THEN 0 ELSE Head(v) + Suma(Tail(v))

RECURSIVE Minimo(_)
Minimo(v) ==
    IF Len(v) = 1 THEN v[1]
    ELSE LET m == Minimo(Tail(v)) IN IF v[1] < m THEN v[1] ELSE m

----------------------------------------------------------------------------
(* phred_a_valor and procesar_secuencia. *)

phred_a_valor(caracter) == caracter - PhredOffset

ValoresPhred(calidades) == [k \in 1..Len(calidades) |-> phred_a_valor(calidades[k])]

RECURSIVE QuitarTodos(_, _, _)
QuitarTodos(s, tabla, k) ==
    IF k > Len(tabla) THEN s ELSE QuitarTodos(Replace(s, tabla[k]), tabla, k + 1)

QuitarAdaptador(secuencia, p) ==
    IF p.adaptador # Auto THEN Replace(secuencia, p.adaptador)
    ELSE QuitarTodos(secuencia, ADAPTADORES, 1)

\* s[:-r] for r >= 0: -0 is 0, so s[:-0] is the empty string
SinCola(s, r) == IF r = 0 THEN << >> ELSE Hasta(s, Len(s) - r)

\* a mutant: the right trim applied without its guard
RecortarCalidades_SinGuarda(s, p) == SinCola(Desde(s, p.trim_left), p.trim_right)

\* a mutant: the quality string is trimmed on the left only
RecortarCalidades_SoloIzquierda(s, p) == Desde(s, p.trim_left)

RecortarCalidades(s, p) ==
    LET izq == Desde(s, p.trim_left)
    IN  IF p.trim_right > 0 THEN SinCola(izq, p.trim_right) ELSE izq

RecortarSecuencia(s, p) ==
    LET izq == Desde(s, p.trim_left)
    IN  IF p.trim_right > 0 THEN SinCola(izq, p.trim_right) ELSE izq

\* a mutant: a base at the threshold is rejected too
BajoMinimo_Estricto(valores, p) == Minimo(valores) <= p.min_quality

BajoMinimo(valores, p) == Minimo(valores) < p.min_quality

\* sum/len < min_mean_quality, on integers: sum < min_mean_quality * len
BajoMedia(valores, p) == Suma(valores) < p.min_mean_quality * Len(valores)

\* a mutant: the upper bound is not looked at
LongitudValida_SoloMinimo(n, p) == p.min_length <= n

\* min_length <= len <= (max_length or inf); max_length.hay is FALSE for None,
\* and an integer 0 is as false as None
LongitudValida(n, p) ==
    /\ p.min_length <= n
    /\ (p.max_length.hay /\ p.max_length.val # 0) => n <= p.max_length.val

DemasiadasN(secuencia, p) == Count(secuencia, Ord.N) > p.max_n

\* the stage at which procesar_secuencia returns
Etapa(sec, cal, p) ==
    LET valores == ValoresPhred(cal)
    IN  IF valores = << >> THEN "vacio"
        ELSE IF BajoMinimo(valores, p) THEN "min_quality"
        ELSE IF BajoMedia(valores, p) THEN "min_mean_quality"
        ELSE IF ~LongitudValida(Len(sec), p) THEN "longitud"
        ELSE IF DemasiadasN(sec, p) THEN "max_n"
        ELSE "aceptada"

\* a mutant: the separator line is left out of the string written
Serializar_SinSeparador(header, sec, cal) == <<header, sec, cal>>

\* f"{header}\n{secuencia}\n+\n{calidades}\n", as the lines it holds
Serializar(header, sec, cal) == <<header, sec, <<Ord.mas>>, cal>>

\* the call, with its locals: res is << >> for None, else the lines of the string
Llamar(header, secuencia, calidades, p) ==
    LET sec == RecortarSecuencia(QuitarAdaptador(secuencia, p), p)
        cal == RecortarCalidades(calidades, p)
        etapa == Etapa(sec, cal, p)
    IN  [hecha |-> TRUE, header |-> header, secuencia |-> secuencia,
         calidades |-> calidades, sec |-> sec, cal |-> cal, etapa |-> etapa,
         res |-> IF etapa = "aceptada" THEN Serializar(header, sec, cal) ELSE << >>]

procesar_secuencia(header, secuencia, calidades, p) ==
    Llamar(header, secuencia, calidades, p).res

SinLlamada ==
    [hecha |-> FALSE, header |-> << >>, secuencia |-> << >>, calidades |-> << >>,
     sec |-> << >>, cal |-> << >>, etapa |-> "ninguna", res |-> << >>]

----------------------------------------------------------------------------
(* obtener_parametros: the parameter sets the program can run with. *)

None == [hay |-> FALSE, val |-> 0]

Algun(n) == [hay |-> TRUE, val |-> n]

\* a max_length of 0 is turned into None, on both paths
obtener_parametros(crudo) ==
    [crudo EXCEPT !.max_length = IF crudo.max_length = 0 THEN None
                                 ELSE Algun(crudo.max_length)]

Umbrales == {0, MaxUmbral}

Recortes == 0..MaxRecorte

\* what the operator may type or the JSON file may hold
Crudos ==
    [min_quality : Umbrales, min_mean_quality : Umbrales, min_length : Umbrales,
     max_length : {0, MaxUmbral - 1}, trim_left : Recortes, trim_right : Recortes,
     max_n : {0, 1}, remove_duplicates : BOOLEAN,
     adaptador : {Auto, << >>, <<Ord.A>>}]

Parametros == {obtener_parametros(c) : c \in Crudos}

\* the parameter sets the whole-run specification explores
ParametrosCorrida ==
    {p \in Parametros : /\ p.min_mean_quality = 0
                        /\ p.trim_right = 0
                        /\ p.max_n = 1
                        /\ p.adaptador # Auto}

\* q is p with no trimming, no adapter and thresholds no stricter
Relajado(p, q) ==
    /\ q.trim_left = 0 /\ q.trim_right = 0 /\ q.adaptador = << >>
    /\ q.remove_duplicates = p.remove_duplicates
    /\ q.min_quality <= p.min_quality
    /\ q.min_mean_quality <= p.min_mean_quality
    /\ q.min_length <= p.min_length
    /\ q.max_n >= p.max_n
    /\ (q.max_length.hay => p.max_length.hay /\ q.max_length.val >= p.max_length.val)

----------------------------------------------------------------------------
(* Input files. *)

\* the lower and the upper quality character: Phred MaxUmbral - 1 and MaxUmbral
QBaja == PhredOffset + MaxUmbral - 1

QAlta == PhredOffset + MaxUmbral

Cabecera == <<Ord.arroba>>

Separador == <<Ord.mas>>

\* sequence line and quality line of the records the input files hold
Lecturas ==
    { <<<<Ord.A>>, <<QBaja>>>>,
      <<<<Ord.A>>, <<QAlta>>>>,
      <<<<Ord.A, Ord.N>>, <<QAlta, QAlta>>>>,
      <<<<Ord.N, Ord.N>>, <<QAlta, QAlta>>>>,
      <<<<Ord.A, Ord.N>>, <<QAlta>>>>,
      <<<<Ord.A, Ord.espacio>>, <<QAlta>>>>,
      <<<<Ord.A, Ord.espacio, Ord.N>>, <<QAlta, QAlta, QAlta>>>> }

Registro4(l) == <<Cabecera, l[1], Separador, l[2]>>

\* what may follow the complete records: nothing, a record cut short, a blank line
Colas ==
    { << >>, <<Cabecera>>, <<Cabecera, <<Ord.A>>>>, <<Cabecera, <<Ord.A>>, Separador>>,
      <<<<Ord.espacio>>>> }

RECURSIVE Cuerpos(_)
Cuerpos(n) ==
    IF n = 0 THEN {<< >>}
    ELSE LET menos == Cuerpos(n - 1)
         IN  menos \cup {c \o Registro4(l) : c \in menos, l \in Lecturas}

Archivo(legible, lineas) == [legible |-> legible, lineas |-> lineas]

ArchivosRicos ==
    {Archivo(TRUE, c \o t) : c \in Cuerpos(MaxRegistros), t \in Colas}
        \cup {Archivo(FALSE, << >>)}

ArchivosChicos ==
    { Archivo(FALSE, << >>), Archivo(TRUE, << >>),
      Archivo(TRUE, Registro4(<<<<Ord.A>>, <<QAlta>>>>)) }

RECURSIVE Listas(_, _)
Listas(S, n) ==
    IF n = 0 THEN {<< >>}
    ELSE LET menos == Listas(S, n - 1)
         IN  menos \cup {Append(l, f) : l \in {m \in menos : Len(m) = n - 1}, f \in S}

\* the directory holds no FASTQ file, one file of any content, or several small ones
Directorios ==
    {<<f>> : f \in ArchivosRicos} \cup Listas(ArchivosChicos, MaxArchivos)

----------------------------------------------------------------------------
(* leer_fastq. *)

\* f.readline(): the next line with its terminator, '' at the end of the file
ReadLine(lineas, n) == IF n < Len(lineas) THEN lineas[n + 1] \o <<Ord.nl>> ELSE << >>

\* a mutant: the separator line is not skipped
Leer_SinSeparador(lineas, n) ==
    [header |-> Strip(ReadLine(lineas, n)),
     secuencia |-> Strip(ReadLine(lineas, n + 1)),
     calidades |-> Strip(ReadLine(lineas, n + 2))]

\* one turn of the reader's loop at position n: the record it would yield
Leer(lineas, n) ==
    [header |-> Strip(ReadLine(lineas, n)),
     secuencia |-> Strip(ReadLine(lineas, n + 1)),
     calidades |-> Strip(ReadLine(lineas, n + 3))]

Avanzar(lineas, n) == IF n + 4 < Len(lineas) THEN n + 4 ELSE Len(lineas)

----------------------------------------------------------------------------
(* procesar_archivo and the main loop. *)

EsDuplicado(p, seq, vistas) == p.remove_duplicates /\ seq \in vistas

\* a mutant: only the sequences of accepted records are remembered
NuevasVistas_SoloAceptadas(p, seq, vistas, res) ==
    IF p.remove_duplicates /\ res # << >> THEN vistas \cup {seq} ELSE vistas

NuevasVistas(p, seq, vistas, res) ==
    IF p.remove_duplicates THEN vistas \cup {seq} ELSE vistas

\* a mutant: the division without its guard
Porcentaje_SinGuarda(c, t) == [num |-> c * 100, den |-> t]

\* (conservadas/total)*100 if total > 0 else 0, as an exact fraction
Porcentaje(c, t) == IF t > 0 THEN [num |-> c * 100, den |-> t] ELSE [num |-> 0, den |-> 1]

actual == archivos[idx]

Init ==
    /\ archivos \in Directorios
    /\ params \in ParametrosCorrida
    /\ pc = "descubrir"
    /\ corrida = 1
    /\ idx = 0
    /\ pos = 0
    /\ secuencias_vistas = {}
    /\ total = 0
    /\ conservadas = 0
    /\ out = << >>
    /\ salidas = << >>
    /\ resultados = << >>
    /\ cedidos = << >>
    /\ evaluados = << >>
    /\ llamada = SinLlamada

\* `if not archivos: sys.exit(1)`
SinArchivos ==
    /\ pc = "descubrir"
    /\ archivos = << >>
    /\ pc' = "exit1"
    /\ UNCHANGED <<archivos, params, corrida, idx, pos, secuencias_vistas, total,
                   conservadas, out, salidas, resultados, cedidos, evaluados, llamada>>

\* files were found and the parameters obtained: the loop over the files starts
Empezar ==
    /\ pc = "descubrir"
    /\ archivos # << >>
    /\ pc' = "main"
    /\ UNCHANGED <<archivos, params, corrida, idx, pos, secuencias_vistas, total,
                   conservadas, out, salidas, resultados, cedidos, evaluados, llamada>>

\* procesar_archivo is entered for the next file: counters reset, output created
IniciarArchivo ==
    /\ pc = "main"
    /\ idx < Len(archivos)
    /\ idx' = idx + 1
    /\ pc' = "archivo"
    /\ pos' = 0
    /\ secuencias_vistas' = {}
    /\ total' = 0
    /\ conservadas' = 0
    /\ out' = << >>
    /\ cedidos' = << >>
    /\ evaluados' = << >>
    /\ UNCHANGED <<archivos, params, corrida, salidas, resultados, llamada>>

\* the reader cannot open or decompress the file: the exception leaves
\* procesar_archivo (closing the output) and the main loop, which has no handler
FalloLectura ==
    /\ pc = "archivo"
    /\ ~actual.legible
    /\ pc' = "abortado"
    /\ salidas' = Append(salidas, out)
    /\ UNCHANGED <<archivos, params, corrida, idx, pos, secuencias_vistas, total,
                   conservadas, out, resultados, cedidos, evaluados, llamada>>

\* one turn of the loop of procesar_archivo over a record the reader yields
Registro ==
    /\ pc = "archivo"
    /\ actual.legible
    /\ LET r == Leer(actual.lineas, pos)
       IN  /\ r.header # << >>
           /\ pos' = Avanzar(actual.lineas, pos)
           /\ total' = total + 1
           /\ cedidos' = Append(cedidos, r)
           /\ IF EsDuplicado(params, r.secuencia, secuencias_vistas)
              THEN UNCHANGED <<secuencias_vistas, conservadas, out, evaluados, llamada>>
              ELSE LET ll == Llamar(r.header, r.secuencia, r.calidades, params)
                   IN  /\ secuencias_vistas' =
                              NuevasVistas(params, r.secuencia, secuencias_vistas, ll.res)
                       /\ llamada' = ll
                       /\ evaluados' = Append(evaluados, Len(cedidos) + 1)
                       /\ out' = out \o ll.res
                       /\ conservadas' = IF ll.res # << >> THEN conservadas + 1
                                         ELSE conservadas
    /\ UNCHANGED <<archivos, params, pc, corrida, idx, salidas, resultados>>

\* the reader finds no header: procesar_archivo returns, the loop appends the result
FinArchivo ==
    /\ pc = "archivo"
    /\ actual.legible
    /\ Leer(actual.lineas, pos).header = << >>
    /\ pc' = "main"
    /\ salidas' = Append(salidas, out)
    /\ resultados' = Append(resultados,
            [archivo |-> idx, total |-> total, conservadas |-> conservadas,
             porcentaje |-> Porcentaje(conservadas, total)])
    /\ UNCHANGED <<archivos, params, corrida, idx, pos, secuencias_vistas, total,
                   conservadas, out, cedidos, evaluados, llamada>>

\* every file was processed: the summary is printed and written
Resumen ==
    /\ pc = "main"
    /\ idx = Len(archivos)
    /\ pc' = "resumen"
    /\ UNCHANGED <<archivos, params, corrida, idx, pos, secuencias_vistas, total,
                   conservadas, out, salidas, resultados, cedidos, evaluados, llamada>>

\* the program is started again on the files it wrote, with no trimming, no
\* adapter and thresholds no stricter
Relanzar ==
    /\ pc = "resumen"
    /\ corrida = 1
    /\ corrida' = 2
    /\ archivos' = [k \in 1..Len(salidas) |-> Archivo(TRUE, salidas[k])]
    /\ params' \in {q \in ParametrosCorrida : Relajado(params, q)}
    /\ pc' = "descubrir"
    /\ idx' = 0
    /\ pos' = 0
    /\ secuencias_vistas' = {}
    /\ total' = 0
    /\ conservadas' = 0
    /\ out' = << >>
    /\ salidas' = << >>
    /\ resultados' = << >>
    /\ cedidos' = << >>
    /\ evaluados' = << >>
    /\ llamada' = SinLlamada

Next ==
    \/ SinArchivos
    \/ Empezar
    \/ IniciarArchivo
    \/ FalloLectura
    \/ Registro
    \/ FinArchivo
    \/ Resumen
    \/ Relanzar

Spec == Init /\ [][Next]_vars

----------------------------------------------------------------------------
(* The filter chain taken alone: procesar_secuencia applied to one read. *)

Repetir(c, n) == [k \in 1..n |-> c]

\* a stretch of bases with its qualities; the last two make the lengths differ
Piezas ==
    { <<<<Ord.A>>, <<QBaja>>>>, <<<<Ord.A>>, <<QAlta>>>>,
      <<<<Ord.N>>, <<QBaja>>>>, <<<<Ord.N>>, <<QAlta>>>>,
      <<<<Ord.A>>, << >>>>, <<<< >>, <<QAlta>>>> }
        \cup {<<ADAPTADORES[k], Repetir(QAlta, Len(ADAPTADORES[k]))>> : k \in 1..3}

RECURSIVE Ensambladas(_)
Ensambladas(n) ==
    IF n = 0 THEN {<<<< >>, << >>>>}
    ELSE LET menos == Ensambladas(n - 1)
         IN  menos \cup {<<e[1] \o z[1], e[2] \o z[2]>> : e \in menos, z \in Piezas}

\* remove_duplicates is not read by the filter chain
ParametrosFiltro == {p \in Parametros : p.remove_duplicates}

InitFiltro ==
    /\ archivos = << >>
    /\ params \in ParametrosFiltro
    /\ pc = "filtro"
    /\ corrida = 1
    /\ idx = 0
    /\ pos = 0
    /\ secuencias_vistas = {}
    /\ total = 0
    /\ conservadas = 0
    /\ out = << >>
    /\ salidas = << >>
    /\ resultados = << >>
    /\ cedidos \in {<<[header |-> Cabecera, secuencia |-> e[1], calidades |-> e[2]]>> :
                        e \in Ensambladas(MaxPiezas)}
    /\ evaluados = << >>
    /\ llamada = SinLlamada

Evaluar ==
    /\ pc = "filtro"
    /\ pc' = "filtrado"
    /\ llamada' = Llamar(cedidos[1].header, cedidos[1].secuencia, cedidos[1].calidades,
                         params)
    /\ UNCHANGED <<archivos, params, corrida, idx, pos, secuencias_vistas, total,
                   conservadas, out, salidas, resultados, cedidos, evaluados>>

NextFiltro == Evaluar

SpecFiltro == InitFiltro /\ [][NextFiltro]_vars

----------------------------------------------------------------------------
(* Properties. *)

\* the indices handed to procesar_secuencia in the current file
Evaluadas == {evaluados[n] : n \in DOMAIN evaluados}

\* the records that are the first of the file to carry their raw sequence
Primeras ==
    {k \in DOMAIN cedidos :
        \A j \in 1..(k - 1) : cedidos[j].secuencia # cedidos[k].secuencia}

\* a occurs in s as a substring
Ocurre(a, s) ==
    a # << >> /\ \E k \in 1..Len(s) : k + Len(a) - 1 <= Len(s) /\ SubSeq(s, k, k + Len(a) - 1) = a

\* the adapter asked for (any known adapter, for 'auto') occurs in s
HayAdaptador(s, p) ==
    IF p.adaptador # Auto THEN Ocurre(p.adaptador, s)
    ELSE \E k \in DOMAIN ADAPTADORES : Ocurre(ADAPTADORES[k], s)

\* m is the least of the Phred values of the quality string q
EsMinimoPhred(m, q) ==
    /\ \E k \in DOMAIN q : q[k] - PhredOffset = m
    /\ \A k \in DOMAIN q : q[k] - PhredOffset >= m

\* the sequence lines of the complete records of a file
LineasSecuencia(lineas) == [k \in 1..(Len(lineas) \div 4) |-> lineas[4 * k - 2]]

SinRepetidas(lineas) ==
    LET ss == LineasSecuencia(lineas)
    IN  \A j, k \in DOMAIN ss : j # k => ss[j] # ss[k]

SinBlancosAlBorde(lineas) == \A k \in DOMAIN lineas : Strip(lineas[k]) = lineas[k]

\* C1: a file that cannot be opened or decompressed is fatal for that file only:
\* the run never aborts, and at the summary every other file has its result entry.
C1_FalloSoloDeEseArchivo ==
    /\ pc # "abortado"
    /\ pc = "resumen" =>
          \A k \in DOMAIN archivos :
              archivos[k].legible => \E j \in DOMAIN resultados : resultados[j].archivo = k

\* C2: leer_fastq yields complete four-line groups only: the records yielded
\* from a file never outnumber its complete groups of four lines.
C2_SoloRegistrosCompletos ==
    idx > 0 => 4 * Len(cedidos) <= Len(actual.lineas)

\* C3: with remove_duplicates the records handed to procesar_secuencia are exactly
\* the first carriers of each raw sequence, each handed once, whatever the filter
\* chain decided about them; without it every record yielded is handed over.
C3_PrimeraPorSecuencia ==
    /\ Cardinality(Evaluadas) = Len(evaluados)
    /\ Evaluadas = IF params.remove_duplicates THEN Primeras ELSE DOMAIN cedidos

\* C3 witness: a later record is skipped although the first carrier of its raw
\* sequence was rejected and the later one would have been accepted.
C3_Testigo ==
    /\ params.remove_duplicates
    /\ \E j, k \in DOMAIN cedidos :
          /\ j < k
          /\ cedidos[j].secuencia = cedidos[k].secuencia
          /\ j \in Evaluadas /\ k \notin Evaluadas
          /\ procesar_secuencia(cedidos[j].header, cedidos[j].secuencia,
                                cedidos[j].calidades, params) = << >>
          /\ procesar_secuencia(cedidos[k].header, cedidos[k].secuencia,
                                cedidos[k].calidades, params) # << >>

\* C4: conservadas never exceeds total, total counts the records the reader
\* yielded, and every reported porcentaje lies in [0, 100] and is 0 for total 0.
C4_ConteosYPorcentaje ==
    /\ conservadas <= total
    /\ total = Len(cedidos)
    /\ \A j \in DOMAIN resultados :
          LET r == resultados[j]
          IN  /\ r.conservadas <= r.total
              /\ r.porcentaje.den > 0
              /\ 0 <= r.porcentaje.num
              /\ r.porcentaje.num <= 100 * r.porcentaje.den
              /\ r.total = 0 => r.porcentaje.num = 0

\* C4 witness: one file reported with no record and one with kept records.
C4_Testigo ==
    /\ \E j \in DOMAIN resultados : resultados[j].total = 0
    /\ \E j \in DOMAIN resultados : resultados[j].conservadas > 0

\* C5 as claimed: every record yielded by the reader and every record accepted by
\* the filter chain has a sequence and a quality string of equal length.
C5_LongitudesIguales ==
    /\ \A k \in DOMAIN cedidos : Len(cedidos[k].secuencia) = Len(cedidos[k].calidades)
    /\ (llamada.hecha /\ llamada.res # << >>) => Len(llamada.res[2]) = Len(llamada.res[4])

\* C5 as amended: a record yielded from a complete four-line group whose sequence
\* and quality lines are equally long once stripped has equal lengths, and so has
\* a record accepted from an equal-length record in which the adapter does not occur.
C5_LongitudesIgualesBienFormado ==
    /\ idx > 0 =>
          \A k \in DOMAIN cedidos :
              (/\ 4 * k <= Len(actual.lineas)
               /\ Len(Strip(actual.lineas[4 * k - 2])) = Len(Strip(actual.lineas[4 * k])))
                  => Len(cedidos[k].secuencia) = Len(cedidos[k].calidades)
    /\ (/\ llamada.hecha /\ llamada.res # << >>
        /\ Len(llamada.secuencia) = Len(llamada.calidades)
        /\ ~HayAdaptador(llamada.secuencia, params))
          => Len(llamada.res[2]) = Len(llamada.res[4])

\* C5 witness: a record read from lines of unequal raw length (trailing blank) was
\* yielded with equal lengths, and a trimmed record was accepted.
C5_Testigo ==
    /\ idx > 0 /\ cedidos # << >> /\ Len(actual.lineas) >= 4
    /\ Len(actual.lineas[2]) # Len(actual.lineas[4])
    /\ Len(cedidos[1].secuencia) = Len(cedidos[1].calidades)
    /\ llamada.hecha /\ llamada.res # << >>
    /\ params.trim_left > 0
    /\ ~HayAdaptador(llamada.secuencia, params)

\* C6 as claimed: the run over the program's own output, with no trimming, no
\* adapter and thresholds no stricter, keeps every record and writes it unchanged.
C6_Idempotente ==
    (corrida = 2 /\ pc = "main" /\ idx > 0) =>
        /\ resultados[idx].conservadas = resultados[idx].total
        /\ salidas[idx] = actual.lineas

\* C6 as amended: it does so when remove_duplicates is off or no two records of
\* the output carry the same sequence, and no line of the output begins or ends
\* with a blank.
C6_IdempotenteSinRepetidas ==
    (/\ corrida = 2 /\ pc = "main" /\ idx > 0
     /\ (~params.remove_duplicates \/ SinRepetidas(actual.lineas))
     /\ SinBlancosAlBorde(actual.lineas)) =>
        /\ resultados[idx].conservadas = resultados[idx].total
        /\ 4 * resultados[idx].total = Len(actual.lineas)
        /\ salidas[idx] = actual.lineas

\* C6 witness: a file of two records written by the first run was processed again
\* with remove_duplicates on.
C6_Testigo ==
    /\ corrida = 2 /\ pc = "main" /\ idx > 0
    /\ params.remove_duplicates
    /\ SinRepetidas(actual.lineas) /\ SinBlancosAlBorde(actual.lineas)
    /\ Len(actual.lineas) = 8
    /\ resultados[idx].total = 2

\* C7: with an integer max_length below min_length no record is ever accepted:
\* every call returns None and every count of kept records is 0.
C7_NadaAceptado ==
    (params.max_length.hay /\ params.min_length > params.max_length.val) =>
        /\ llamada.hecha => llamada.res = << >>
        /\ conservadas = 0
        /\ out = << >>
        /\ \A j \in DOMAIN resultados : resultados[j].conservadas = 0

\* C7 witness: under such parameters a record that passed the quality checks was
\* rejected at the length check, and its file was reported.
C7_Testigo ==
    /\ params.max_length.hay /\ params.min_length > params.max_length.val
    /\ llamada.hecha /\ llamada.etapa = "longitud"
    /\ Len(llamada.sec) >= params.min_length
    /\ resultados # << >>

\* C8: the per-base threshold is inclusive: a read whose least Phred value over
\* the trimmed quality string equals min_quality is accepted when the mean, length
\* and N checks pass, and one whose least value is one below is rejected.
C8_UmbralInclusivo ==
    (llamada.hecha /\ llamada.cal # << >>) =>
        /\ (/\ EsMinimoPhred(params.min_quality, llamada.cal)
            /\ Suma([k \in DOMAIN llamada.cal |-> llamada.cal[k] - PhredOffset])
                   >= params.min_mean_quality * Len(llamada.cal)
            /\ params.min_length <= Len(llamada.sec)
            /\ params.max_length.hay => Len(llamada.sec) <= params.max_length.val
            /\ Count(llamada.sec, Ord.N) <= params.max_n)
              => llamada.res = <<llamada.header, llamada.sec, Separador, llamada.cal>>
        /\ EsMinimoPhred(params.min_quality - 1, llamada.cal) => llamada.res = << >>

\* C8 witness: a read whose least Phred value equals a positive min_quality was
\* accepted.
C8_Testigo ==
    /\ llamada.hecha /\ llamada.res # << >>
    /\ params.min_quality > 0
    /\ EsMinimoPhred(params.min_quality, llamada.cal)

\* C9: for a read of equal lengths on entry, an accepted record's quality string
\* is longer than its sequence by at least 0 and at most the number of characters
\* adapter removal deleted, and by 0 when the adapter does not occur.
C9_RecorteAlPaso ==
    (/\ llamada.hecha /\ llamada.res # << >>
     /\ Len(llamada.secuencia) = Len(llamada.calidades)) =>
        LET dif == Len(llamada.res[4]) - Len(llamada.res[2])
            borradas == Len(llamada.secuencia)
                            - Len(QuitarAdaptador(llamada.secuencia, params))
        IN  /\ 0 <= dif
            /\ dif <= borradas
            /\ ~HayAdaptador(llamada.secuencia, params) => dif = 0

\* C9 witness: a read trimmed at both ends after adapter removal deleted bases
\* was accepted.
C9_Testigo ==
    /\ llamada.hecha /\ llamada.res # << >>
    /\ Len(llamada.secuencia) = Len(llamada.calidades)
    /\ params.trim_left > 0 /\ params.trim_right > 0
    /\ HayAdaptador(llamada.secuencia, params)
    /\ Len(llamada.res[4]) > Len(llamada.res[2])

\* C10: trimming is slicing: with trim_right = 0 nothing is removed on the right,
\* and when trim_left + trim_right reaches the length of the quality string the
\* trimmed quality is empty and the call returns None at the empty check.
C10_RecorteComoRebanada ==
    llamada.hecha =>
        LET q == llamada.calidades
            l == params.trim_left
        IN  /\ params.trim_right = 0 =>
                  /\ Len(llamada.cal) = (IF l >= Len(q) THEN 0 ELSE Len(q) - l)
                  /\ \A k \in DOMAIN llamada.cal : llamada.cal[k] = q[k + l]
            /\ l + params.trim_right >= Len(q) =>
                  /\ llamada.cal = << >>
                  /\ llamada.etapa = "vacio"
                  /\ llamada.res = << >>

\* C10 witness: a non-empty quality string was trimmed away from both ends and
\* the read rejected at the empty check.
C10_Testigo ==
    /\ llamada.hecha /\ llamada.etapa = "vacio"
    /\ llamada.calidades # << >>
    /\ params.trim_left > 0 /\ params.trim_right > 0
    /\ params.trim_left + params.trim_right >= Len(llamada.calidades)

====
